---------------------------- MODULE Spec2Model ----------------------------
(***************************************************************************)
(* Inventory / order fulfilment core of DigiAssets.py.                     *)
(*                                                                         *)
(* The persistent store is the state: the ledger rows (inventory_items),   *)
(* the inventory transactions, the orders and the order items.  Every      *)
(* request handler is one action: a handler runs in one database session   *)
(* that is committed at its end or discarded when it raises, so what it    *)
(* leaves behind is either all of its writes or none of them.              *)
(*                                                                         *)
(* Quantities and prices are numbers; the model uses integers.  Timestamps *)
(* are whole seconds (generate_transaction_number formats utcnow() down to *)
(* the second), kept in the clock variable now.                            *)
(***************************************************************************)
EXTENDS Integers, Sequences, FiniteSets, TLC

(* ------------------------------ bounds --------------------------------- *)
MaxClock == 1
MaxTxns == 2
MaxOrders == 1
MaxOrderItems == 2

(* ---------------------------- master data ------------------------------ *)
\* item_master rows; the core never creates or changes them
ItemIds == {1, 2}
\* an id that no item_master row has
MissingItem == 9
\* ItemMaster.is_returnable of the rows above
IsReturnable(i) == i = 1
\* the authenticated caller (get_current_user)
CurrentUser == 1

(* --------------------------- input domains ----------------------------- *)
InitCurrent == {2}
InitReserved == {0, 1}
RequestedQtys == {0, 2}
FulfillQtys == {-1, 0, 1, 2}
ExtraQtys == {0, 1}
ReturnQtys == {1, 2}
\* the issue that the returns are made against
IssuedQty == 2
IssuedReturnable == {1, 2}
BeforeStart == -1
\* the line of the order that is already stored
OrderedQty == 1
Conditions == {"GOOD", "DAMAGED"}
UnitCost == 3
UnitPrice == 2
\* the drafts a caller posts to /inventory/transactions:
\* <<transaction_type, transaction_sub_type, quantity, returnable_quantity>>
Drafts ==
    { <<"IN", "PURCHASE", 2, 0>>, <<"IN", "CUSTOMER_RETURN", 1, 0>>,
      <<"OUT", "SALE", 1, 1>>, <<"OUT", "SALE", 2, 0>>,
      <<"ADJUST", "STOCK_TAKE", 1, 0>>, <<"ADJUST", "STOCK_TAKE", -1, 0>> }
\* the drafts posted while orders are being fulfilled
CoreDrafts ==
    { <<"IN", "PURCHASE", 2, 0>>, <<"OUT", "SALE", 1, 1>>, <<"ADJUST", "STOCK_TAKE", -1, 0>> }

VARIABLES
    inv,        \* item id -> ledger row (inventory_items), or NoRow
    txns,       \* set of inventory_transactions rows
    orders,     \* set of orders rows
    oitems,     \* set of order_items rows
    nextTxnId,  \* next inventory_transactions.id
    nextOrderId,\* next orders.id
    nextOiId,   \* next order_items.id
    now,        \* utcnow(), in seconds
    result,     \* the response that the caller has not yet read, or Idle
    applied,    \* history: transaction id -> times its movement was written to a ledger row
    prev,       \* history: the store as the request behind result found it
    inflight    \* request slot -> the session of a request that runs in steps

vars == <<inv, txns, orders, oitems, nextTxnId, nextOrderId, nextOiId, now, applied, result,
         prev, inflight>>
\* the persistent store
db == [inv |-> inv, txns |-> txns, orders |-> orders, oitems |-> oitems]

(* ------------------------------ ledger --------------------------------- *)
NoRow == [exists |-> FALSE, current |-> 0, reserved |-> 0, returnable |-> 0, available |-> 0]

\* InventoryItem(current_quantity=0, reserved_quantity=0, returnable_quantity=0, available_quantity=0)
ZeroRow == [exists |-> TRUE, current |-> 0, reserved |-> 0, returnable |-> 0, available |-> 0]

\* get_available_stock reading current_quantity alone
get_available_stock_IgnoresReserved(item) ==
    IF inv[item].exists THEN inv[item].current ELSE 0

get_available_stock(item) ==
    IF inv[item].exists THEN inv[item].current - inv[item].reserved ELSE 0

(* ---------------------------- numbering -------------------------------- *)
generate_transaction_number(clock) == <<"TXN", clock>>
generate_order_number(clock) == <<"ORD", clock>>
NoRef == <<"", 0>>
NoOrder == 0
Null == -1

TxnNumbers(T) == {t.number : t \in T}
HasTxn(id) == \E t \in txns : t.id = id
TxnById(id) == CHOOSE t \in txns : t.id = id
HasOrder(id) == \E o \in orders : o.id = id
OrderById(id) == CHOOSE o \in orders : o.id = id

RECURSIVE SumQty(_)
SumQty(T) == IF T = {} THEN 0
             ELSE LET t == CHOOSE x \in T : TRUE IN t.quantity + SumQty(T \ {t})

\* a response: the operation, its outcome and the ids and quantities of the request
Resp(op, err, args) == [op |-> op, err |-> err, args |-> args]
\* no response is waiting: the caller may send the next request
Idle == Resp("none", "none", <<>>)

\* the store and the clock at the start of a request
Snapshot == [inv |-> inv, txns |-> txns, orders |-> orders, oitems |-> oitems, now |-> now]
NoSnapshot == [inv |-> [i \in ItemIds |-> NoRow], txns |-> {}, orders |-> {},
               oitems |-> {}, now |-> 0]

(* ------------------------------ sessions ------------------------------- *)
\* the requests that may be in flight at the same time
Slots == {1, 2}
NoLine == [id |-> Null, order |-> NoOrder, item |-> 1, requested |-> 0, fulfilled |-> 0,
           returnable |-> 0, unit_price |-> 0, total_price |-> 0, status |-> "PENDING"]
\* SessionLocal(): a session that has loaded nothing yet
NoSession == [pc |-> "idle", op |-> "none", id |-> Null, qty |-> 0, err |-> "none",
              row |-> NoRow, line |-> NoLine]
NoSessions == [s \in Slots |-> NoSession]

(* ------------------------------- Init ---------------------------------- *)
Init ==
    /\ inv \in [ItemIds -> {NoRow} \cup
                  {[exists |-> TRUE, current |-> c, reserved |-> r,
                    returnable |-> 0, available |-> c - r] :
                       c \in InitCurrent, r \in InitReserved}]
    /\ inv[1].exists
    /\ ~inv[2].exists
    /\ txns = {}
    /\ orders = {}
    /\ oitems = {}
    /\ nextTxnId = 1
    /\ nextOrderId = 1
    /\ nextOiId = 1
    /\ now = 0
    /\ applied = [i \in 0..(MaxTxns + 1) |-> 0]
    /\ result = Idle
    /\ prev = NoSnapshot
    /\ inflight = NoSessions

(* ------------------------------ clock ---------------------------------- *)
Tick ==
    /\ UNCHANGED inflight
    /\ now < MaxClock
    /\ now' = now + 1
    /\ UNCHANGED <<inv, txns, orders, oitems, nextTxnId, nextOrderId, nextOiId, applied, result, prev>>

(* ----------------------------- the caller ------------------------------ *)
\* requests are served one at a time: the caller reads the response of one
\* request before it sends the next
Receive ==
    /\ UNCHANGED inflight
    /\ result # Idle
    /\ result' = Idle
    /\ prev' = NoSnapshot
    /\ UNCHANGED <<inv, txns, orders, oitems, nextTxnId, nextOrderId, nextOiId, now, applied>>

(* ------------------- POST /inventory/transactions ---------------------- *)
\* the remarks column holds text, a sequence of its parts; the free text a caller
\* sends and the fixed fulfilment texts are the empty text here
NoRemarks == << >>

NewTxn(id, clock, item, order, type, sub, qty, ret, cost, total, ref, status) ==
    [id |-> id, number |-> generate_transaction_number(clock), item |-> item,
     order |-> order, type |-> type, sub |-> sub, quantity |-> qty,
     returnable |-> ret, unit_cost |-> cost, total_cost |-> total,
     reference |-> ref, remarks |-> NoRemarks, status |-> status,
     confirmed_at |-> Null, confirmed_by |-> Null]

create_inventory_transaction(item, type, sub, qty, ret, cost, ref) ==
    LET op == "create" IN
    IF item \notin ItemIds THEN
        /\ result' = Resp(op, "NotFound", <<item>>)
        /\ UNCHANGED <<inv, txns, orders, oitems, nextTxnId, nextOrderId, nextOiId, now, applied>>
    ELSE IF generate_transaction_number(now) \in TxnNumbers(txns) THEN
        \* unique index on transaction_number: commit raises, nothing is stored
        /\ result' = Resp(op, "StorageError", <<item>>)
        /\ UNCHANGED <<inv, txns, orders, oitems, nextTxnId, nextOrderId, nextOiId, now, applied>>
    ELSE
        /\ nextTxnId <= MaxTxns
        /\ txns' = txns \cup {NewTxn(nextTxnId, now, item, NoOrder, type, sub, qty, ret,
                                      cost, qty * cost, ref, "PENDING")}
        /\ nextTxnId' = nextTxnId + 1
        /\ result' = Resp(op, "OK", <<item>>)
        /\ UNCHANGED <<inv, orders, oitems, nextOrderId, nextOiId, now, applied>>

(* ------------ POST /inventory/transactions/{id}/confirm ---------------- *)
\* the row the handler works on: the stored one, or a fresh zero row
ConfirmRow(item) == IF inv[item].exists THEN inv[item] ELSE ZeroRow

\* ApplyMovement with ADJUST added to the stock instead of replacing it
ApplyMovement_AdjustAsDelta(row, t) ==
    LET r1 == IF t.type = "IN" THEN
                  [row EXCEPT !.current = @ + t.quantity,
                              !.returnable = IF t.sub = "CUSTOMER_RETURN"
                                             THEN @ - t.quantity ELSE @]
              ELSE IF t.type = "OUT" THEN
                  [row EXCEPT !.current = @ - t.quantity,
                              !.returnable = IF t.returnable > 0
                                             THEN @ + t.returnable ELSE @]
              ELSE [row EXCEPT !.current = @ + t.quantity]
    IN [r1 EXCEPT !.available = r1.current - r1.reserved]

\* ApplyMovement without the release of the returnable obligation on a return
ApplyMovement_ReturnKeepsReturnable(row, t) ==
    LET r1 == IF t.type = "IN" THEN
                  [row EXCEPT !.current = @ + t.quantity]
              ELSE IF t.type = "OUT" THEN
                  [row EXCEPT !.current = @ - t.quantity,
                              !.returnable = IF t.returnable > 0
                                             THEN @ + t.returnable ELSE @]
              ELSE IF t.type = "ADJUST" THEN
                  [row EXCEPT !.current = t.quantity]
              ELSE row
    IN [r1 EXCEPT !.available = r1.current - r1.reserved]

\* lines 1785-1798: the quantities after the movement of transaction t
ApplyMovement(row, t) ==
    LET r1 == IF t.type = "IN" THEN
                  [row EXCEPT !.current = @ + t.quantity,
                              !.returnable = IF t.sub = "CUSTOMER_RETURN"
                                             THEN @ - t.quantity ELSE @]
              ELSE IF t.type = "OUT" THEN
                  [row EXCEPT !.current = @ - t.quantity,
                              !.returnable = IF t.returnable > 0
                                             THEN @ + t.returnable ELSE @]
              ELSE IF t.type = "ADJUST" THEN
                  [row EXCEPT !.current = t.quantity]
              ELSE row
    IN [r1 EXCEPT !.available = r1.current - r1.reserved]

\* the status test that lets a CONFIRMED transaction be confirmed again
AlreadyProcessed_AllowsConfirmed(t) == t.status \notin {"PENDING", "CONFIRMED"}

\* AlreadyProcessed without the status test
AlreadyProcessed_Never(t) == FALSE

\* lines 1764-1765
AlreadyProcessed(t) == t.status # "PENDING"

\* lines 1789-1791
InsufficientStock(row, t) == t.type = "OUT" /\ row.current < t.quantity

\* ConfirmFailureLedger if the flushed zero row were committed
ConfirmFailureLedger_KeepsFlushedRow(item) == [inv EXCEPT ![item] = ConfirmRow(item)]

\* what a confirm that raises InsufficientStock leaves in the store: the
\* session is closed without commit, so the flushed zero row is discarded
ConfirmFailureLedger(item) == inv

confirm_inventory_transaction(id) ==
    LET op == "confirm" IN
    IF ~HasTxn(id) THEN
        /\ result' = Resp(op, "NotFound", <<id>>)
        /\ UNCHANGED <<inv, txns, orders, oitems, nextTxnId, nextOrderId, nextOiId, now, applied>>
    ELSE LET t == TxnById(id)
             row == ConfirmRow(t.item)
         IN
         IF AlreadyProcessed(t) THEN
             /\ result' = Resp(op, "AlreadyProcessed", <<id>>)
             /\ UNCHANGED <<inv, txns, orders, oitems, nextTxnId, nextOrderId, nextOiId, now, applied>>
         ELSE IF InsufficientStock(row, t) THEN
             /\ result' = Resp(op, "InsufficientStock", <<id>>)
             /\ inv' = ConfirmFailureLedger(t.item)
             /\ UNCHANGED <<txns, orders, oitems, nextTxnId, nextOrderId, nextOiId, now, applied>>
         ELSE
             /\ inv' = [inv EXCEPT ![t.item] = ApplyMovement(row, t)]
             /\ txns' = (txns \ {t}) \cup
                          {[t EXCEPT !.status = "CONFIRMED", !.confirmed_at = now,
                                     !.confirmed_by = CurrentUser]}
             /\ applied' = [applied EXCEPT ![id] = @ + 1]
             /\ result' = Resp(op, "OK", <<id>>)
             /\ UNCHANGED <<orders, oitems, nextTxnId, nextOrderId, nextOiId, now>>

(* ----------------------------- POST /orders --------------------------- *)
create_order ==
    LET op == "createOrder" IN
    IF generate_order_number(now) \in {o.number : o \in orders} THEN
        \* unique index on order_number: commit raises, nothing is stored
        /\ result' = Resp(op, "StorageError", <<>>)
        /\ UNCHANGED <<inv, txns, orders, oitems, nextTxnId, nextOrderId, nextOiId, now, applied>>
    ELSE
        /\ nextOrderId <= MaxOrders
        /\ orders' = orders \cup {[id |-> nextOrderId, number |-> generate_order_number(now),
                                   status |-> "PENDING", total_amount |-> 0]}
        /\ nextOrderId' = nextOrderId + 1
        /\ result' = Resp(op, "OK", <<>>)
        /\ UNCHANGED <<inv, txns, oitems, nextTxnId, nextOiId, now, applied>>

(* ----------------------- POST /orders/{id}/items ----------------------- *)
OrderItemsOf(oid) == {oi \in oitems : oi.order = oid}

\* the update that overwrites the order's total with the new line's price
OrderTotalAfterAdd_Overwrites(order, total_price) == total_price

\* line 1595: order.total_amount += total_price
OrderTotalAfterAdd(order, total_price) == order.total_amount + total_price

\* a guard that refuses lines on a FULFILLED order only
OrderNotModifiable_OnlyFulfilled(order) == order.status = "FULFILLED"

\* line 1574: only a PENDING order takes new lines
OrderNotModifiable(order) == order.status # "PENDING"

add_order_item(oid, item, requested, price) ==
    LET op == "addItem" IN
    IF ~HasOrder(oid) THEN
        /\ result' = Resp(op, "NotFound", <<oid, item, requested>>)
        /\ UNCHANGED <<inv, txns, orders, oitems, nextTxnId, nextOrderId, nextOiId, now, applied>>
    ELSE LET order == OrderById(oid) IN
         IF OrderNotModifiable(order) THEN
             /\ result' = Resp(op, "OrderNotModifiable", <<oid, item, requested>>)
             /\ UNCHANGED <<inv, txns, orders, oitems, nextTxnId, nextOrderId, nextOiId, now, applied>>
         ELSE IF item \notin ItemIds THEN
             /\ result' = Resp(op, "NotFound", <<oid, item, requested>>)
             /\ UNCHANGED <<inv, txns, orders, oitems, nextTxnId, nextOrderId, nextOiId, now, applied>>
         ELSE
             /\ Cardinality(OrderItemsOf(oid)) < MaxOrderItems
             /\ oitems' = oitems \cup
                    {[id |-> nextOiId, order |-> oid, item |-> item,
                      requested |-> requested, fulfilled |-> 0, returnable |-> 0,
                      unit_price |-> price, total_price |-> requested * price,
                      status |-> "PENDING"]}
             /\ orders' = (orders \ {order}) \cup
                    {[order EXCEPT !.total_amount =
                                       OrderTotalAfterAdd(order, requested * price)]}
             /\ nextOiId' = nextOiId + 1
             /\ result' = Resp(op, "OK", <<oid, item, requested>>)
             /\ UNCHANGED <<inv, txns, nextTxnId, nextOrderId, now, applied>>

(* -------------------------- DELETE /orders/{id} ------------------------ *)
\* the count of confirmed transactions taken over the order's lines only
HasConfirmedTransactions_OfOrderLines(oid) ==
    \E t \in txns : /\ t.order = oid /\ t.status = "CONFIRMED"
                    /\ \E oi \in oitems : oi.order = oid /\ oi.item = t.item

\* lines 1617-1620: a CONFIRMED transaction is linked to the order
HasConfirmedTransactions(oid) ==
    \E t \in txns : t.order = oid /\ t.status = "CONFIRMED"

\* the delete that leaves the order's transactions in place
TxnsAfterDelete_KeepsPending(oid) == txns

\* lines 1631-1635: the PENDING transactions of the order are deleted with it
TxnsAfterDelete(oid) == {t \in txns : ~(t.order = oid /\ t.status = "PENDING")}

delete_order(oid) ==
    LET op == "deleteOrder" IN
    IF ~HasOrder(oid) THEN
        /\ result' = Resp(op, "NotFound", <<oid>>)
        /\ UNCHANGED <<inv, txns, orders, oitems, nextTxnId, nextOrderId, nextOiId, now, applied>>
    ELSE LET order == OrderById(oid) IN
         IF order.status \notin {"PENDING", "CANCELLED"} THEN
             /\ result' = Resp(op, "InvalidState", <<oid>>)
             /\ UNCHANGED <<inv, txns, orders, oitems, nextTxnId, nextOrderId, nextOiId, now, applied>>
         ELSE IF HasConfirmedTransactions(oid) THEN
             /\ result' = Resp(op, "HasConfirmedTransactions", <<oid>>)
             /\ UNCHANGED <<inv, txns, orders, oitems, nextTxnId, nextOrderId, nextOiId, now, applied>>
         ELSE
             /\ oitems' = oitems \ OrderItemsOf(oid)
             /\ txns' = TxnsAfterDelete(oid)
             /\ orders' = orders \ {order}
             /\ result' = Resp(op, "OK", <<oid>>)
             /\ UNCHANGED <<inv, nextTxnId, nextOrderId, nextOiId, now, applied>>

(* -------------------- POST /orders/{id}/fulfill-item ------------------- *)
\* the status check that turns away FULFILLED orders only
OrderNotPending_OnlyFulfilled(order) == order.status = "FULFILLED"

\* the status check letting an order that is already PROCESSING through
OrderNotPending_AllowsProcessing(order) == order.status \notin {"PENDING", "PROCESSING"}

\* lines 1125, 1239 and 2017: the three fulfilment handlers serve PENDING orders only
OrderNotPending(order) == order.status # "PENDING"

\* lines 1129 and 1245: what is still to be fulfilled of a line
RemainingQty(oi) == oi.requested - oi.fulfilled

\* lines 1194-1197
ItemStatusAfterFulfil(fulfilled, requested) ==
    IF fulfilled >= requested THEN "FULFILLED" ELSE "PARTIAL"

\* the order status that stays PENDING until every line is fulfilled
OrderStatusAfterFulfil_StaysPending(items) ==
    IF \A oi \in items : oi.fulfilled >= oi.requested THEN "FULFILLED" ELSE "PENDING"

\* lines 1200-1208
OrderStatusAfterFulfil(items) ==
    IF \A oi \in items : oi.fulfilled >= oi.requested THEN "FULFILLED" ELSE "PROCESSING"

\* FulfilRow without the recomputation of available_quantity
FulfilRow_StaleAvailable(row, total, extra) ==
    [row EXCEPT !.current = @ - total,
                !.returnable = IF extra > 0 THEN @ + extra ELSE @]

\* FulfilRow that also takes the fulfilled units off the reservation
FulfilRow_ConsumesReserved(row, total, extra) ==
    LET r1 == [row EXCEPT !.current = @ - total,
                          !.reserved = @ - total,
                          !.returnable = IF extra > 0 THEN @ + extra ELSE @]
    IN [r1 EXCEPT !.available = r1.current - r1.reserved]

\* lines 1181-1185: the ledger row after a fulfilment of total units, extra of them returnable
FulfilRow(row, total, extra) ==
    LET r1 == [row EXCEPT !.current = @ - total,
                          !.returnable = IF extra > 0 THEN @ + extra ELSE @]
    IN [r1 EXCEPT !.available = r1.current - r1.reserved]


fulfill_order_item(oid, oiid, fq, eq) ==
    LET op == "fulfillItem" IN
    IF ~HasOrder(oid) \/ ~(\E oi \in oitems : oi.id = oiid /\ oi.order = oid) THEN
        /\ result' = Resp(op, "NotFound", <<oid, oiid, fq, eq>>)
        /\ UNCHANGED <<inv, txns, orders, oitems, nextTxnId, nextOrderId, nextOiId, now, applied>>
    ELSE LET order == OrderById(oid)
             oi == CHOOSE x \in oitems : x.id = oiid /\ x.order = oid
             total == fq + eq
         IN
         IF OrderNotPending(order) THEN
             /\ result' = Resp(op, "OrderNotPending", <<oid, oiid, fq, eq>>)
             /\ UNCHANGED <<inv, txns, orders, oitems, nextTxnId, nextOrderId, nextOiId, now, applied>>
         ELSE IF fq > RemainingQty(oi) THEN
             /\ result' = Resp(op, "ExceedsRemaining", <<oid, oiid, fq, eq>>)
             /\ UNCHANGED <<inv, txns, orders, oitems, nextTxnId, nextOrderId, nextOiId, now, applied>>
         ELSE IF total > get_available_stock(oi.item) THEN
             /\ result' = Resp(op, "InsufficientStock", <<oid, oiid, fq, eq>>)
             /\ UNCHANGED <<inv, txns, orders, oitems, nextTxnId, nextOrderId, nextOiId, now, applied>>
         ELSE IF generate_transaction_number(now) \in TxnNumbers(txns) THEN
             \* flush raises on the unique index; the handler rolls back
             /\ result' = Resp(op, "StorageError", <<oid, oiid, fq, eq>>)
             /\ UNCHANGED <<inv, txns, orders, oitems, nextTxnId, nextOrderId, nextOiId, now, applied>>
         ELSE
             LET t == NewTxn(nextTxnId, now, oi.item, oid, "OUT", "ORDER_FULFILLMENT",
                             total, eq, oi.unit_price, total * oi.unit_price,
                             order.number, "CONFIRMED")
                 f2 == oi.fulfilled + fq
                 oi2 == [oi EXCEPT !.fulfilled = f2,
                                   !.returnable = IF eq > 0 THEN @ + eq ELSE @,
                                   !.status = ItemStatusAfterFulfil(f2, oi.requested)]
                 items2 == (oitems \ {oi}) \cup {oi2}
             IN
             /\ nextTxnId <= MaxTxns
             /\ txns' = txns \cup {t}
             /\ nextTxnId' = nextTxnId + 1
             /\ inv' = IF inv[oi.item].exists
                       THEN [inv EXCEPT ![oi.item] = FulfilRow(@, total, eq)]
                       ELSE inv
             /\ applied' = IF inv[oi.item].exists
                           THEN [applied EXCEPT ![nextTxnId] = @ + 1]
                           ELSE applied
             /\ oitems' = items2
             /\ orders' = (orders \ {order}) \cup
                    {[order EXCEPT !.status =
                        OrderStatusAfterFulfil({x \in items2 : x.order = oid})]}
             /\ result' = Resp(op, "OK", <<oid, oiid, fq, eq>>)
             /\ UNCHANGED <<nextOrderId, nextOiId, now>>

(* -------------------- POST /orders/{id}/bulk-fulfill ------------------- *)
\* order.order_items, in primary-key order
RECURSIVE SortedItems(_)
SortedItems(S) ==
    IF S = {} THEN <<>>
    ELSE LET first == CHOOSE x \in S : \A y \in S : x.id <= y.id
         IN <<first>> \o SortedItems(S \ {first})

\* StockIssues that passes over the lines whose item has no ledger row
StockIssues_SkipsRowlessItems(items) ==
    {oi \in items : /\ inv[oi.item].exists
                    /\ RemainingQty(oi) > 0
                    /\ RemainingQty(oi) > get_available_stock(oi.item)}

\* lines 1243-1254: the lines whose remaining quantity exceeds the available stock
StockIssues(items) ==
    {oi \in items : RemainingQty(oi) > 0 /\ RemainingQty(oi) > get_available_stock(oi.item)}

\* the clock readings of one call: ticks[k] seconds pass before line k is processed
TickChoices(n) == [1..n -> {0, 1}]

RECURSIVE SumTicks(_, _)
SumTicks(ticks, k) == IF k = 0 THEN 0 ELSE ticks[k] + SumTicks(ticks, k - 1)

\* lines 1264-1306, working on the session's pending state st
RECURSIVE BulkLoop(_, _, _, _, _)
BulkLoop(order, items, k, ticks, st) ==
    IF k > Len(items) \/ ~st.ok THEN st
    ELSE
        LET oi == items[k]
            clock == now + SumTicks(ticks, k)
            rem == RemainingQty(oi)
            number == generate_transaction_number(clock)
        IN
        IF rem > 0 THEN
            IF number \in TxnNumbers(st.txns) THEN
                \* flush raises on the unique index
                [st EXCEPT !.ok = FALSE]
            ELSE
                LET t == NewTxn(st.nid, clock, oi.item, order.id, "OUT", "ORDER_FULFILLMENT",
                                rem, 0, oi.unit_price, rem * oi.unit_price,
                                order.number, "CONFIRMED")
                    hasRow == st.inv[oi.item].exists
                IN BulkLoop(order, items, k + 1, ticks,
                     [ok |-> TRUE,
                      inv |-> IF hasRow
                              THEN [st.inv EXCEPT ![oi.item] = FulfilRow(@, rem, 0)]
                              ELSE st.inv,
                      txns |-> st.txns \cup {t},
                      oitems |-> (st.oitems \ {oi}) \cup
                                   {[oi EXCEPT !.fulfilled = oi.requested,
                                               !.status = "FULFILLED"]},
                      nid |-> st.nid + 1,
                      applied |-> IF hasRow
                                  THEN [st.applied EXCEPT ![st.nid] = @ + 1]
                                  ELSE st.applied])
        ELSE BulkLoop(order, items, k + 1, ticks, st)

SessionState ==
    [ok |-> TRUE, inv |-> inv, txns |-> txns, oitems |-> oitems,
     nid |-> nextTxnId, applied |-> applied]

\* what a call leaves when it is refused or rolled back: the store as it was
Refused(order) ==
    [ok |-> FALSE, inv |-> inv, txns |-> txns, oitems |-> oitems, nid |-> nextTxnId,
     applied |-> applied, status |-> order.status]

\* lines 1243-1311: the pre-check, the loop and the order status of bulkFulfill
\* on a PENDING order, as the store the call would commit
BulkFulfilOutcome(order, ticks) ==
    IF StockIssues(OrderItemsOf(order.id)) # {} THEN Refused(order)
    ELSE LET st == BulkLoop(order, SortedItems(OrderItemsOf(order.id)), 1, ticks,
                            SessionState)
         IN IF ~st.ok THEN Refused(order)
            ELSE [ok |-> TRUE, inv |-> st.inv, txns |-> st.txns, oitems |-> st.oitems,
                  nid |-> st.nid, applied |-> st.applied, status |-> "FULFILLED"]

bulk_fulfill_order(oid, ticks) ==
    LET op == "bulkFulfill" IN
    IF ~HasOrder(oid) THEN
        /\ result' = Resp(op, "NotFound", <<oid>>)
        /\ UNCHANGED <<inv, txns, orders, oitems, nextTxnId, nextOrderId, nextOiId, now, applied>>
    ELSE LET order == OrderById(oid)
             items == SortedItems(OrderItemsOf(oid))
         IN
         IF OrderNotPending(order) THEN
             /\ result' = Resp(op, "OrderNotPending", <<oid>>)
             /\ UNCHANGED <<inv, txns, orders, oitems, nextTxnId, nextOrderId, nextOiId, now, applied>>
         ELSE IF StockIssues(OrderItemsOf(oid)) # {} THEN
             /\ result' = Resp(op, "InsufficientStock", <<oid>>)
             /\ UNCHANGED <<inv, txns, orders, oitems, nextTxnId, nextOrderId, nextOiId, now, applied>>
         ELSE
             LET st == BulkFulfilOutcome(order, ticks) IN
             /\ DOMAIN ticks = 1..Len(items)
             /\ now + SumTicks(ticks, Len(items)) <= MaxClock
             /\ now' = now + SumTicks(ticks, Len(items))
             /\ IF ~st.ok THEN
                    \* the handler rolls the session back
                    /\ result' = Resp(op, "StorageError", <<oid>>)
                    /\ UNCHANGED <<inv, txns, orders, oitems, nextTxnId, nextOrderId, nextOiId, applied>>
                ELSE
                    /\ st.nid <= MaxTxns + 1
                    /\ inv' = st.inv
                    /\ txns' = st.txns
                    /\ oitems' = st.oitems
                    /\ nextTxnId' = st.nid
                    /\ applied' = st.applied
                    /\ orders' = (orders \ {order}) \cup {[order EXCEPT !.status = st.status]}
                    /\ result' = Resp(op, "OK", <<oid>>)
                    /\ UNCHANGED <<nextOrderId, nextOiId>>

(* ---------------------- POST /orders/{id}/fulfill ---------------------- *)
\* the pre-check that compares the requested quantity with current_quantity
FulfillOrderIssues_ComparesCurrent(items) ==
    {oi \in items : ~inv[oi.item].exists \/ inv[oi.item].current < oi.requested}

\* lines 2021-2030: a line fails the check when its item has no ledger row or the
\* stored available_quantity is below the requested quantity
FulfillOrderIssues(items) ==
    {oi \in items : ~inv[oi.item].exists \/ inv[oi.item].available < oi.requested}

\* lines 2033-2064; the inserts are sent at commit, so st.numbers collects the
\* transaction numbers of the call as a sequence
RECURSIVE FulfillLoop(_, _, _, _, _)
FulfillLoop(order, items, k, ticks, st) ==
    IF k > Len(items) THEN st
    ELSE
        LET oi == items[k]
            clock == now + SumTicks(ticks, k)
            t == NewTxn(st.nid, clock, oi.item, order.id, "OUT", "ORDER_FULFILLMENT",
                        oi.requested, 0, oi.unit_price, oi.total_price,
                        order.number, "CONFIRMED")
        IN FulfillLoop(order, items, k + 1, ticks,
             [ok |-> st.ok /\ t.number \notin TxnNumbers(st.txns),
              inv |-> [st.inv EXCEPT ![oi.item] = FulfilRow(@, oi.requested, 0)],
              txns |-> st.txns \cup {t},
              oitems |-> (st.oitems \ {oi}) \cup
                           {[oi EXCEPT !.fulfilled = oi.requested, !.status = "FULFILLED"]},
              nid |-> st.nid + 1,
              applied |-> [st.applied EXCEPT ![st.nid] = @ + 1]])

\* lines 2021-2067: the pre-check, the loop and the order status of fulfillOrder
\* on a PENDING order, as the store the call would commit
FulfillOrderOutcome(order, ticks) ==
    IF FulfillOrderIssues(OrderItemsOf(order.id)) # {} THEN Refused(order)
    ELSE LET st == FulfillLoop(order, SortedItems(OrderItemsOf(order.id)), 1, ticks,
                               SessionState)
         IN IF ~st.ok THEN Refused(order)
            ELSE [ok |-> TRUE, inv |-> st.inv, txns |-> st.txns, oitems |-> st.oitems,
                  nid |-> st.nid, applied |-> st.applied, status |-> "FULFILLED"]

fulfill_order(oid, ticks) ==
    LET op == "fulfillOrder" IN
    IF ~HasOrder(oid) THEN
        /\ result' = Resp(op, "NotFound", <<oid>>)
        /\ UNCHANGED <<inv, txns, orders, oitems, nextTxnId, nextOrderId, nextOiId, now, applied>>
    ELSE LET order == OrderById(oid)
             items == SortedItems(OrderItemsOf(oid))
         IN
         IF OrderNotPending(order) THEN
             /\ result' = Resp(op, "OrderNotPending", <<oid>>)
             /\ UNCHANGED <<inv, txns, orders, oitems, nextTxnId, nextOrderId, nextOiId, now, applied>>
         ELSE IF FulfillOrderIssues(OrderItemsOf(oid)) # {} THEN
             /\ result' = Resp(op, "InsufficientStock", <<oid>>)
             /\ UNCHANGED <<inv, txns, orders, oitems, nextTxnId, nextOrderId, nextOiId, now, applied>>
         ELSE
             /\ DOMAIN ticks = 1..Len(items)
             /\ nextTxnId + Len(items) <= MaxTxns + 1
             /\ now + SumTicks(ticks, Len(items)) <= MaxClock
             /\ now' = now + SumTicks(ticks, Len(items))
             /\ LET st == FulfillOrderOutcome(order, ticks) IN
                IF ~st.ok THEN
                    \* commit raises on the unique index; the session is discarded
                    /\ result' = Resp(op, "StorageError", <<oid>>)
                    /\ UNCHANGED <<inv, txns, orders, oitems, nextTxnId, nextOrderId, nextOiId, applied>>
                ELSE
                    /\ inv' = st.inv
                    /\ txns' = st.txns
                    /\ oitems' = st.oitems
                    /\ nextTxnId' = st.nid
                    /\ applied' = st.applied
                    /\ orders' = (orders \ {order}) \cup {[order EXCEPT !.status = st.status]}
                    /\ result' = Resp(op, "OK", <<oid>>)
                    /\ UNCHANGED <<nextOrderId, nextOiId>>

(* -------------------- POST /inventory/process-return ------------------- *)
\* ReturnedSoFar that finds no earlier return
ReturnedSoFar_FindsNone(original) == 0

\* lines 1910-1914
ReturnedSoFar(original) ==
    SumQty({t \in txns : /\ t.reference = original.number
                         /\ t.sub = "CUSTOMER_RETURN"
                         /\ t.status = "CONFIRMED"})

\* line 1931: the condition goes into the remarks text, in front of the
\* caller's own remarks
ReturnRemarks(condition) == <<"Return - Condition: ", condition>> \o NoRemarks

ReturnTransaction_DamagedCountsNothing(original, rq, condition) ==
    LET counted == IF condition = "DAMAGED" THEN 0 ELSE rq IN
    [NewTxn(nextTxnId, now, original.item, original.order, "IN", "CUSTOMER_RETURN",
            counted, 0, original.unit_cost, counted * original.unit_cost,
            original.number, "PENDING")
        EXCEPT !.remarks = ReturnRemarks(condition)]

\* lines 1919-1934: the PENDING return movement built from the original
ReturnTransaction(original, rq, condition) ==
    [NewTxn(nextTxnId, now, original.item, original.order, "IN", "CUSTOMER_RETURN",
            rq, 0, original.unit_cost, rq * original.unit_cost, original.number,
            "PENDING")
        EXCEPT !.remarks = ReturnRemarks(condition)]

\* the answer of process_return and the transactions it leaves stored
ProcessReturnOutcome(id, rq, condition) ==
    IF ~HasTxn(id) THEN [err |-> "NotFound", txns |-> txns, nid |-> nextTxnId]
    ELSE LET original == TxnById(id) IN
         IF rq > original.returnable - ReturnedSoFar(original)
         THEN [err |-> "ExceedsOutstanding", txns |-> txns, nid |-> nextTxnId]
         ELSE IF generate_transaction_number(now) \in TxnNumbers(txns)
         THEN [err |-> "StorageError", txns |-> txns, nid |-> nextTxnId]
         ELSE [err |-> "OK",
               txns |-> txns \cup {ReturnTransaction(original, rq, condition)},
               nid |-> nextTxnId + 1]

process_return(id, rq, condition) ==
    LET out == ProcessReturnOutcome(id, rq, condition) IN
    /\ out.err = "OK" => nextTxnId <= MaxTxns
    /\ result' = Resp("processReturn", out.err, <<id, rq>>)
    /\ txns' = out.txns
    /\ nextTxnId' = out.nid
    /\ UNCHANGED <<inv, orders, oitems, nextOrderId, nextOiId, now, applied>>

(* ----------- POST /inventory/transactions/order-fulfillment ------------ *)
create_order_fulfillment_transaction(oid, item, rq, eq, cost) ==
    LET op == "createOrderFulfillment"
        total == rq + eq
    IN
    IF ~HasOrder(oid) \/ item \notin ItemIds THEN
        /\ result' = Resp(op, "NotFound", <<oid, item, rq, eq>>)
        /\ UNCHANGED <<inv, txns, orders, oitems, nextTxnId, nextOrderId, nextOiId, now, applied>>
    ELSE IF ~inv[item].exists THEN
        /\ result' = Resp(op, "NotInInventory", <<oid, item, rq, eq>>)
        /\ UNCHANGED <<inv, txns, orders, oitems, nextTxnId, nextOrderId, nextOiId, now, applied>>
    ELSE IF inv[item].available < total THEN
        /\ result' = Resp(op, "InsufficientStock", <<oid, item, rq, eq>>)
        /\ UNCHANGED <<inv, txns, orders, oitems, nextTxnId, nextOrderId, nextOiId, now, applied>>
    ELSE IF generate_transaction_number(now) \in TxnNumbers(txns) THEN
        /\ result' = Resp(op, "StorageError", <<oid, item, rq, eq>>)
        /\ UNCHANGED <<inv, txns, orders, oitems, nextTxnId, nextOrderId, nextOiId, now, applied>>
    ELSE
        /\ nextTxnId <= MaxTxns
        /\ txns' = txns \cup
             {NewTxn(nextTxnId, now, item, oid, "OUT", "ORDER_FULFILLMENT", total, eq,
                     cost, total * cost, OrderById(oid).number, "PENDING")}
        /\ nextTxnId' = nextTxnId + 1
        /\ result' = Resp(op, "OK", <<oid, item, rq, eq>>)
        /\ UNCHANGED <<inv, orders, oitems, nextOrderId, nextOiId, now, applied>>

(* ------------------------------- Next ---------------------------------- *)
\* the requests a caller can make in the current state: every combination of
\* arguments that names stored rows, and one request that names rows that do not exist
CreateArgs(D) ==
    {<<i, d>> : i \in ItemIds, d \in D} \cup
    {<<MissingItem, d>> : d \in {<<"IN", "PURCHASE", 2, 0>>}}

DoCreate ==
    /\ UNCHANGED inflight
    /\ result = Idle
    /\ prev' = Snapshot
    /\ \E a \in CreateArgs(Drafts) :
        create_inventory_transaction(a[1], a[2][1], a[2][2], a[2][3], a[2][4], UnitCost, NoRef)

DoCreateCore ==
    /\ UNCHANGED inflight
    /\ result = Idle
    /\ prev' = Snapshot
    /\ \E a \in CreateArgs(CoreDrafts) :
        create_inventory_transaction(a[1], a[2][1], a[2][2], a[2][3], a[2][4], UnitCost, NoRef)

TxnIdArgs == {t.id : t \in txns} \cup {nextTxnId}
OrderIdArgs == {o.id : o \in orders} \cup {nextOrderId}

DoConfirm ==
    /\ UNCHANGED inflight
    /\ result = Idle
    /\ prev' = Snapshot
    /\ \E id \in TxnIdArgs : confirm_inventory_transaction(id)

DoCreateOrder ==
    /\ UNCHANGED inflight
    /\ result = Idle
    /\ prev' = Snapshot
    /\ create_order

AddItemArgs ==
    {<<o.id, i, q>> : o \in orders, i \in ItemIds, q \in RequestedQtys} \cup
    {<<o.id, MissingItem, 1>> : o \in orders} \cup
    {<<nextOrderId, 1, 1>>}

DoAddItem ==
    /\ UNCHANGED inflight
    /\ result = Idle
    /\ prev' = Snapshot
    /\ \E a \in AddItemArgs : add_order_item(a[1], a[2], a[3], UnitPrice)

DoDeleteOrder ==
    /\ UNCHANGED inflight
    /\ result = Idle
    /\ prev' = Snapshot
    /\ \E oid \in OrderIdArgs : delete_order(oid)

FulfillItemArgs ==
    {<<oi.order, oi.id, fq, eq>> : oi \in oitems, fq \in FulfillQtys, eq \in ExtraQtys} \cup
    {<<o.id, nextOiId, 1, 0>> : o \in orders} \cup
    {<<nextOrderId, nextOiId, 1, 0>>}

DoFulfillItem ==
    /\ UNCHANGED inflight
    /\ result = Idle
    /\ prev' = Snapshot
    /\ \E a \in FulfillItemArgs : fulfill_order_item(a[1], a[2], a[3], a[4])

DoBulkFulfill ==
    /\ UNCHANGED inflight
    /\ result = Idle
    /\ prev' = Snapshot
    /\ \E oid \in OrderIdArgs :
        \E ticks \in TickChoices(Cardinality(OrderItemsOf(oid))) :
            bulk_fulfill_order(oid, ticks)

DoFulfillOrder ==
    /\ UNCHANGED inflight
    /\ result = Idle
    /\ prev' = Snapshot
    /\ \E oid \in OrderIdArgs :
        \E ticks \in TickChoices(Cardinality(OrderItemsOf(oid))) :
            fulfill_order(oid, ticks)

ProcessReturnArgs ==
    {<<t.id, rq, c>> : t \in txns, rq \in ReturnQtys, c \in Conditions} \cup
    {<<nextTxnId, 1, "GOOD">>}

DoProcessReturn ==
    /\ UNCHANGED inflight
    /\ result = Idle
    /\ prev' = Snapshot
    /\ \E a \in ProcessReturnArgs : process_return(a[1], a[2], a[3])

OrderFulfillmentArgs ==
    {<<o.id, i, eq>> : o \in orders, i \in ItemIds, eq \in ExtraQtys} \cup
    {<<o.id, MissingItem, 0>> : o \in orders} \cup
    {<<nextOrderId, 1, 0>>}

DoCreateOrderFulfillment ==
    /\ UNCHANGED inflight
    /\ result = Idle
    /\ prev' = Snapshot
    /\ \E a \in OrderFulfillmentArgs :
        create_order_fulfillment_transaction(a[1], a[2], 1, a[3], UnitCost)

Next ==
    \/ Tick
    \/ Receive
    \/ DoCreateCore
    \/ DoConfirm
    \/ DoCreateOrder
    \/ DoAddItem
    \/ DoDeleteOrder
    \/ DoFulfillItem
    \/ DoBulkFulfill
    \/ DoFulfillOrder
    \/ DoProcessReturn
    \/ DoCreateOrderFulfillment

NextLedger ==
    \/ Tick
    \/ Receive
    \/ DoCreate
    \/ DoConfirm
    \/ DoProcessReturn

SpecLedger == Init /\ [][NextLedger]_vars

\* The store one second after a returnable issue: an OUT/SALE of IssuedQty units of
\* item 1, r of them returnable, was created in the second before the clock starts
\* and has been confirmed against a row that held IssuedQty units.
InitReturns ==
    /\ \E r \in IssuedReturnable :
        /\ inv = [i \in ItemIds |->
                    IF i = 1
                    THEN [exists |-> TRUE, current |-> 0, reserved |-> 0,
                          returnable |-> r, available |-> 0]
                    ELSE NoRow]
        /\ txns = {[NewTxn(0, BeforeStart, 1, NoOrder, "OUT", "SALE", IssuedQty, r,
                           UnitCost, IssuedQty * UnitCost, NoRef, "CONFIRMED")
                       EXCEPT !.confirmed_at = 0, !.confirmed_by = CurrentUser]}
    /\ orders = {}
    /\ oitems = {}
    /\ nextTxnId = 1
    /\ nextOrderId = 1
    /\ nextOiId = 1
    /\ now = 0
    /\ applied = [i \in 0..(MaxTxns + 1) |-> IF i = 0 THEN 1 ELSE 0]
    /\ result = Idle
    /\ prev = NoSnapshot
    /\ inflight = NoSessions

NextReturns ==
    \/ Tick
    \/ Receive
    \/ DoConfirm
    \/ DoProcessReturn

SpecReturns == InitReturns /\ [][NextReturns]_vars

\* The store one second after an order was entered: order 0, created in the second
\* before the clock starts, with one line of OrderedQty units of item 1; the ledger
\* is as in Init.
InitOrders ==
    /\ inv \in [ItemIds -> {NoRow} \cup
                  {[exists |-> TRUE, current |-> c, reserved |-> r,
                    returnable |-> 0, available |-> c - r] :
                       c \in InitCurrent, r \in InitReserved}]
    /\ inv[1].exists
    /\ ~inv[2].exists
    /\ txns = {}
    /\ orders = {[id |-> 0, number |-> generate_order_number(BeforeStart),
                  status |-> "PENDING", total_amount |-> OrderedQty * UnitPrice]}
    /\ oitems = {[id |-> 0, order |-> 0, item |-> 1,
                  requested |-> OrderedQty, fulfilled |-> 0, returnable |-> 0,
                  unit_price |-> UnitPrice, total_price |-> OrderedQty * UnitPrice,
                  status |-> "PENDING"]}
    /\ nextTxnId = 1
    /\ nextOrderId = 1
    /\ nextOiId = 1
    /\ now = 0
    /\ applied = [i \in 0..(MaxTxns + 1) |-> 0]
    /\ result = Idle
    /\ prev = NoSnapshot
    /\ inflight = NoSessions

NextOrders ==
    \/ Tick
    \/ Receive
    \/ DoCreateOrder
    \/ DoAddItem
    \/ DoDeleteOrder
    \/ DoCreateOrderFulfillment
    \/ DoConfirm

SpecOrders == InitOrders /\ [][NextOrders]_vars

(* ------------------- requests that overlap in time --------------------- *)
\* Every request has a session of its own (SessionLocal, get_db): what it loads
\* is its private copy, and what it changed is sent to the store at commit.  A
\* request is taken in two steps, the reads with the checks made on them, then
\* the writes with the commit; a second request may run between the two.
PendingQtys == {1, 2}
ConcurrentFulfillQtys == {1, 2}
ConcurrentRequested == 2

\* the UPDATE of a flush: only the attributes whose value the session changed
\* are written, as the values the session computed from what it had loaded
WriteBack(stored, loaded, changed) ==
    [f \in DOMAIN stored |-> IF changed[f] # loaded[f] THEN changed[f] ELSE stored[f]]

\* a ledger row for item 1, two PENDING OUT transactions on it and a PENDING
\* order with one line on it; no request has started
InitConcurrent ==
    /\ inv \in [ItemIds -> {NoRow} \cup
                  {[exists |-> TRUE, current |-> c, reserved |-> r,
                    returnable |-> 0, available |-> c - r] :
                       c \in InitCurrent, r \in InitReserved}]
    /\ inv[1].exists
    /\ ~inv[2].exists
    /\ \E q0 \in PendingQtys, q1 \in PendingQtys :
          txns = {NewTxn(0, BeforeStart - 1, 1, NoOrder, "OUT", "SALE", q0, 0,
                         UnitCost, q0 * UnitCost, NoRef, "PENDING"),
                  NewTxn(1, BeforeStart, 1, NoOrder, "OUT", "SALE", q1, 0,
                         UnitCost, q1 * UnitCost, NoRef, "PENDING")}
    /\ orders = {[id |-> 0, number |-> generate_order_number(BeforeStart),
                  status |-> "PENDING", total_amount |-> ConcurrentRequested * UnitPrice]}
    /\ oitems = {[id |-> 0, order |-> 0, item |-> 1, requested |-> ConcurrentRequested,
                  fulfilled |-> 0, returnable |-> 0, unit_price |-> UnitPrice,
                  total_price |-> ConcurrentRequested * UnitPrice, status |-> "PENDING"]}
    /\ nextTxnId = 2
    /\ nextOrderId = 1
    /\ nextOiId = 1
    /\ now = 0
    /\ applied = [i \in 0..(MaxTxns + 1) |-> 0]
    /\ result = Idle
    /\ prev = Snapshot
    /\ inflight = NoSessions

Finished(s, op, id, qty, err) ==
    [NoSession EXCEPT !.pc = "done", !.op = op, !.id = id, !.qty = qty, !.err = err]

\* lines 1760-1769: the transaction and the ledger row are loaded
BeginConfirm ==
    \E s \in Slots : \E t \in txns :
        /\ inflight[s].pc = "idle"
        /\ inflight' = [inflight EXCEPT ![s] =
              IF AlreadyProcessed(t)
              THEN Finished(s, "confirm", t.id, t.quantity, "AlreadyProcessed")
              ELSE [NoSession EXCEPT !.pc = "read", !.op = "confirm", !.id = t.id,
                                     !.qty = t.quantity, !.row = ConfirmRow(t.item)]]
        /\ UNCHANGED <<inv, txns, orders, oitems, nextTxnId, nextOrderId, nextOiId, now,
                       applied, result, prev>>

\* lines 1784-1805: the check and the movement on the loaded row, then the commit
CommitConfirm ==
    \E s \in Slots :
        /\ inflight[s].pc = "read"
        /\ inflight[s].op = "confirm"
        /\ LET t == TxnById(inflight[s].id)
               row == inflight[s].row
           IN
           IF InsufficientStock(row, t) THEN
               /\ inflight' = [inflight EXCEPT ![s] =
                      Finished(s, "confirm", t.id, t.quantity, "InsufficientStock")]
               /\ UNCHANGED <<inv, txns, applied>>
           ELSE
               /\ inv' = [inv EXCEPT ![t.item] = WriteBack(@, row, ApplyMovement(row, t))]
               /\ txns' = (txns \ {t}) \cup
                            {[t EXCEPT !.status = "CONFIRMED", !.confirmed_at = now,
                                       !.confirmed_by = CurrentUser]}
               /\ applied' = [applied EXCEPT ![t.id] = @ + 1]
               /\ inflight' = [inflight EXCEPT ![s] =
                      Finished(s, "confirm", t.id, t.quantity, "OK")]
        /\ UNCHANGED <<orders, oitems, nextTxnId, nextOrderId, nextOiId, now, result, prev>>

\* lines 1114-1144: the order, the line and the ledger row are loaded and checked
BeginFulfillItem ==
    \E s \in Slots : \E oi \in oitems : \E fq \in ConcurrentFulfillQtys :
        /\ inflight[s].pc = "idle"
        /\ inflight' = [inflight EXCEPT ![s] =
              IF OrderNotPending(OrderById(oi.order))
              THEN Finished(s, "fulfillItem", oi.id, fq, "OrderNotPending")
              ELSE IF fq > RemainingQty(oi)
              THEN Finished(s, "fulfillItem", oi.id, fq, "ExceedsRemaining")
              ELSE IF fq > get_available_stock(oi.item)
              THEN Finished(s, "fulfillItem", oi.id, fq, "InsufficientStock")
              ELSE [NoSession EXCEPT !.pc = "read", !.op = "fulfillItem", !.id = oi.id,
                                     !.qty = fq, !.row = inv[oi.item], !.line = oi]]
        /\ UNCHANGED <<inv, txns, orders, oitems, nextTxnId, nextOrderId, nextOiId, now,
                       applied, result, prev>>

\* lines 1155-1212: the transaction is inserted, the loaded row and line are
\* changed and the session commits
CommitFulfillItem ==
    \E s \in Slots :
        /\ inflight[s].pc = "read"
        /\ inflight[s].op = "fulfillItem"
        /\ LET oi == inflight[s].line
               fq == inflight[s].qty
               row == inflight[s].row
               order == OrderById(oi.order)
               stored == CHOOSE x \in oitems : x.id = oi.id
               f2 == oi.fulfilled + fq
               oi2 == [oi EXCEPT !.fulfilled = f2,
                                 !.status = ItemStatusAfterFulfil(f2, oi.requested)]
               items2 == (oitems \ {stored}) \cup {WriteBack(stored, oi, oi2)}
               \* order.order_items as this session sees them (line 1201)
               loaded == (oitems \ {stored}) \cup {oi2}
               t == NewTxn(nextTxnId, now, oi.item, oi.order, "OUT", "ORDER_FULFILLMENT",
                           fq, 0, oi.unit_price, fq * oi.unit_price,
                           order.number, "CONFIRMED")
           IN
           IF t.number \in TxnNumbers(txns) THEN
               /\ inflight' = [inflight EXCEPT ![s] =
                      Finished(s, "fulfillItem", oi.id, fq, "StorageError")]
               /\ UNCHANGED <<inv, txns, orders, oitems, nextTxnId, applied>>
           ELSE
               /\ nextTxnId <= MaxTxns + 1
               /\ txns' = txns \cup {t}
               /\ nextTxnId' = nextTxnId + 1
               /\ inv' = [inv EXCEPT ![oi.item] = WriteBack(@, row, FulfilRow(row, fq, 0))]
               /\ applied' = [applied EXCEPT ![nextTxnId] = @ + 1]
               /\ oitems' = items2
               /\ orders' = (orders \ {order}) \cup
                      {[order EXCEPT !.status =
                          OrderStatusAfterFulfil({x \in loaded : x.order = oi.order})]}
               /\ inflight' = [inflight EXCEPT ![s] =
                      Finished(s, "fulfillItem", oi.id, fq, "OK")]
        /\ UNCHANGED <<nextOrderId, nextOiId, now, result, prev>>

NextConcurrent ==
    \/ Tick
    \/ BeginConfirm
    \/ CommitConfirm
    \/ BeginFulfillItem
    \/ CommitFulfillItem

SpecConcurrent == InitConcurrent /\ [][NextConcurrent]_vars

Spec == Init /\ [][Next]_vars


(***************************************************************************)
(* Properties.  They are stated over the store, the response result and    *)
(* the snapshot prev that the answered request started from, and they      *)
(* spell out their conditions instead of reusing the handlers' operators.  *)
(***************************************************************************)
Answered(op) == result.op = op
Unchanged ==
    /\ inv = prev.inv
    /\ txns = prev.txns
    /\ orders = prev.orders
    /\ oitems = prev.oitems
PrevHasTxn(id) == \E t \in prev.txns : t.id = id
PrevTxn(id) == CHOOSE t \in prev.txns : t.id = id
PrevAvailable(i) ==
    IF prev.inv[i].exists THEN prev.inv[i].current - prev.inv[i].reserved ELSE 0
PrevCurrent(i) == IF prev.inv[i].exists THEN prev.inv[i].current ELSE 0
PrevReturnable(i) == IF prev.inv[i].exists THEN prev.inv[i].returnable ELSE 0
PrevReserved(i) == IF prev.inv[i].exists THEN prev.inv[i].reserved ELSE 0
PrevLines(oid) == {oi \in prev.oitems : oi.order = oid}
PrevOrderPending(oid) == \E o \in prev.orders : o.id = oid /\ o.status = "PENDING"
\* the transactions that became CONFIRMED in the answered request
NewlyConfirmed ==
    {t \in txns : /\ result # Idle
                  /\ t.status = "CONFIRMED"
                  /\ ~\E u \in prev.txns : u.id = t.id /\ u.status = "CONFIRMED"}

\* C1: in every reachable state every ledger row has
\* available_quantity = current_quantity - reserved_quantity.
C1_AvailableIsCurrentMinusReserved ==
    \A i \in ItemIds :
        inv[i].exists => inv[i].available = inv[i].current - inv[i].reserved

\* a fulfilment has just moved stock of an item that has a reservation
C1_Witness ==
    /\ Answered("fulfillItem") /\ result.err = "OK"
    /\ \E i \in ItemIds : /\ inv[i].exists /\ prev.inv[i].exists
                          /\ inv[i].reserved = 1
                          /\ inv[i].current < prev.inv[i].current

C3_NoOutBeyondAvailable ==
    \A t \in NewlyConfirmed :
        t.type = "OUT" => t.quantity <= PrevAvailable(t.item)

\* C4: no ledger row ever has a negative current_quantity.
C4_CurrentNeverNegative ==
    \A i \in ItemIds : inv[i].exists => inv[i].current >= 0

\* C5: confirm of a transaction that is not PENDING answers AlreadyProcessed and
\* changes nothing; confirm of a missing transaction answers NotFound.
C5_ConfirmRejectsNonPending ==
    Answered("confirm") =>
        LET id == result.args[1] IN
        IF ~PrevHasTxn(id)
        THEN result.err = "NotFound" /\ Unchanged
        ELSE PrevTxn(id).status # "PENDING" =>
                 result.err = "AlreadyProcessed" /\ Unchanged

\* confirm was refused for a transaction that a fulfilment had created CONFIRMED
C5_Witness ==
    /\ Answered("confirm") /\ result.err = "AlreadyProcessed"
    /\ \E t \in txns : /\ t.id = result.args[1]
                       /\ t.status = "CONFIRMED"
                       /\ t.sub = "ORDER_FULFILLMENT"
                       /\ t.confirmed_by = Null

\* C6: confirm is all-or-nothing.  An OUT whose quantity exceeds current is
\* answered InsufficientStock with the store unchanged (the transaction PENDING,
\* confirmed_at/confirmed_by unset, no ledger row left behind); any confirm that
\* is not answered OK leaves the store unchanged, and one answered OK leaves the
\* transaction CONFIRMED and stamped.
C6_ConfirmAllOrNothing ==
    Answered("confirm") =>
        LET id == result.args[1] IN
        /\ (/\ PrevHasTxn(id)
            /\ PrevTxn(id).status = "PENDING"
            /\ PrevTxn(id).type = "OUT"
            /\ PrevCurrent(PrevTxn(id).item) < PrevTxn(id).quantity)
               => result.err = "InsufficientStock"
        /\ result.err = "InsufficientStock" =>
               \E t \in txns : /\ t.id = id /\ t.status = "PENDING"
                               /\ t.confirmed_at = Null /\ t.confirmed_by = Null
        /\ result.err # "OK" => Unchanged
        /\ result.err = "OK" =>
               /\ PrevTxn(id).status = "PENDING"
               /\ \E t \in txns : /\ t.id = id /\ t.status = "CONFIRMED"
                                  /\ t.confirmed_at = prev.now
                                  /\ t.confirmed_by = CurrentUser
               /\ inv[PrevTxn(id).item].exists

\* an OUT on an item without a ledger row was refused for lack of stock
C6_Witness ==
    /\ Answered("confirm") /\ result.err = "InsufficientStock"
    /\ \E t \in txns : /\ t.id = result.args[1]
                       /\ t.type = "OUT"
                       /\ ~prev.inv[t.item].exists

\* C7: a successful confirm applies the movement of the transaction's type:
\* IN adds quantity to current (and takes it from returnable only for
\* CUSTOMER_RETURN); OUT takes quantity from current and adds a positive
\* returnable_quantity to returnable; ADJUST sets current to quantity.
C7_ConfirmAppliesMovement ==
    (Answered("confirm") /\ result.err = "OK") =>
        LET t == PrevTxn(result.args[1])
            new == inv[t.item]
            c0 == PrevCurrent(t.item)
            r0 == PrevReturnable(t.item)
        IN
        /\ new.exists
        /\ new.reserved = PrevReserved(t.item)
        /\ \A j \in ItemIds \ {t.item} : inv[j] = prev.inv[j]
        /\ t.type = "IN" =>
              /\ new.current = c0 + t.quantity
              /\ new.returnable = IF t.sub = "CUSTOMER_RETURN" THEN r0 - t.quantity ELSE r0
        /\ t.type = "OUT" =>
              /\ new.current = c0 - t.quantity
              /\ new.returnable = IF t.returnable > 0 THEN r0 + t.returnable ELSE r0
        /\ t.type = "ADJUST" =>
              /\ new.current = t.quantity
              /\ new.returnable = r0

\* an ADJUST was confirmed on an item that had stock
C7_Witness ==
    /\ Answered("confirm") /\ result.err = "OK"
    /\ \E t \in prev.txns : /\ t.id = result.args[1]
                            /\ t.type = "ADJUST"
                            /\ PrevCurrent(t.item) > 0

NowCurrent(i) == IF inv[i].exists THEN inv[i].current ELSE 0
NowReturnable(i) == IF inv[i].exists THEN inv[i].returnable ELSE 0
PrevLine(oiid) == CHOOSE oi \in prev.oitems : oi.id = oiid
NowLine(oiid) == CHOOSE oi \in oitems : oi.id = oiid
\* the transactions stored by the answered request
NewTxns == txns \ prev.txns

C12_FulfilItemRejections ==
    (/\ Answered("fulfillItem")
     /\ PrevOrderPending(result.args[1])
     /\ \E oi \in PrevLines(result.args[1]) : oi.id = result.args[2]) =>
        LET fq == result.args[3]
            eq == result.args[4]
            old == PrevLine(result.args[2])
            exceeds == fq > old.requested - old.fulfilled
            short == fq + eq > PrevAvailable(old.item)
        IN
        /\ exceeds => result.err = "ExceedsRemaining"
        /\ (short /\ ~exceeds) => result.err = "InsufficientStock"
        /\ (exceeds \/ short) => Unchanged

\* fulfillItem was refused for lack of stock on an item without a ledger row
C12_Witness ==
    /\ Answered("fulfillItem") /\ result.err = "InsufficientStock"
    /\ \E oi \in oitems : /\ oi.id = result.args[2]
                          /\ ~inv[oi.item].exists
                          /\ result.args[3] <= oi.requested - oi.fulfilled


\* C13: fulfillItem, bulkFulfill and fulfillOrder reject an order whose status is
\* not PENDING: they answer OrderNotPending, store no transaction and change no
\* ledger row, order item or order.
C13_FulfilmentNeedsPendingOrder ==
    (/\ result.op \in {"fulfillItem", "bulkFulfill", "fulfillOrder"}
     /\ \E o \in prev.orders : o.id = result.args[1] /\ o.status # "PENDING") =>
        /\ Unchanged
        /\ result.err # "OK"
        /\ (Answered("fulfillItem") =>
               IF \E oi \in PrevLines(result.args[1]) : oi.id = result.args[2]
               THEN result.err = "OrderNotPending"
               ELSE result.err = "NotFound")
        /\ (~Answered("fulfillItem") => result.err = "OrderNotPending")

\* bulkFulfill was refused on an order that an earlier fulfillItem had left PROCESSING
C13_Witness ==
    /\ Answered("bulkFulfill") /\ result.err = "OrderNotPending"
    /\ \E o \in orders : o.id = result.args[1] /\ o.status = "PROCESSING"
    /\ \E oi \in oitems : oi.order = result.args[1] /\ oi.fulfilled < oi.requested


C15_OrderStatusIsFunctionOfItems ==
    \A o \in orders :
        LET items == {oi \in oitems : oi.order = o.id} IN
        o.status = IF \A oi \in items : oi.fulfilled >= oi.requested THEN "FULFILLED"
                   ELSE IF \E oi \in items : oi.fulfilled > 0 THEN "PROCESSING"
                   ELSE "PENDING"


RECURSIVE TotalQuantity(_)
TotalQuantity(T) ==
    IF T = {} THEN 0
    ELSE LET t == CHOOSE x \in T : TRUE IN t.quantity + TotalQuantity(T \ {t})
\* the CONFIRMED customer returns, among the transactions T, that refer to transaction o
ConfirmedReturnsOf(T, o) ==
    {t \in T : /\ t.sub = "CUSTOMER_RETURN"
               /\ t.status = "CONFIRMED"
               /\ t.reference = o.number}

\* C16: processReturn answers ExceedsOutstanding, storing no transaction and changing
\* no ledger row, whenever returnedQuantity > original.returnable_quantity minus the
\* total quantity of the CONFIRMED CUSTOMER_RETURN transactions that refer to the
\* original's number; it answers NotFound when the original does not exist.
C16_ProcessReturnRejections ==
    Answered("processReturn") =>
        LET id == result.args[1]
            rq == result.args[2]
        IN
        IF ~PrevHasTxn(id)
        THEN result.err = "NotFound" /\ Unchanged
        ELSE rq > PrevTxn(id).returnable
                    - TotalQuantity(ConfirmedReturnsOf(prev.txns, PrevTxn(id)))
                => result.err = "ExceedsOutstanding" /\ Unchanged

\* a return was refused because earlier confirmed returns had used up what the
\* original allows, although the quantity alone was within returnable_quantity
C16_Witness ==
    /\ Answered("processReturn") /\ result.err = "ExceedsOutstanding"
    /\ \E o \in txns : /\ o.id = result.args[1]
                       /\ result.args[2] <= o.returnable
                       /\ ConfirmedReturnsOf(txns, o) # {}

\* C17: a successful processReturn stores one PENDING IN transaction of sub-type
\* CUSTOMER_RETURN with quantity = returnedQuantity, the original's unit_cost and
\* reference_number = the original's number, and changes no ledger row; the ledger is
\* credited (current + quantity, returnable - quantity) when that transaction is
\* confirmed, and not before.
C17_ReturnCreditedAtConfirm ==
    /\ (Answered("processReturn") /\ result.err = "OK") =>
          LET o == PrevTxn(result.args[1]) IN
          /\ inv = prev.inv
          /\ Cardinality(NewTxns) = 1
          /\ prev.txns \subseteq txns
          /\ \A t \in NewTxns :
                /\ t.type = "IN" /\ t.sub = "CUSTOMER_RETURN" /\ t.status = "PENDING"
                /\ t.quantity = result.args[2]
                /\ t.unit_cost = o.unit_cost
                /\ t.reference = o.number
                /\ t.item = o.item
    /\ \A t \in txns :
          (t.sub = "CUSTOMER_RETURN" /\ t.reference # NoRef /\ t.status = "PENDING")
              => applied[t.id] = 0
    /\ (Answered("confirm") /\ result.err = "OK") =>
          LET t == PrevTxn(result.args[1]) IN
          (t.type = "IN" /\ t.sub = "CUSTOMER_RETURN") =>
              /\ NowCurrent(t.item) = PrevCurrent(t.item) + t.quantity
              /\ NowReturnable(t.item) = PrevReturnable(t.item) - t.quantity

\* issued 2 with 2 returnable: a return of 2 has been confirmed, current is 2 again
\* and nothing is outstanding
C17_Witness ==
    /\ Answered("confirm") /\ result.err = "OK"
    /\ \E t \in txns : /\ t.id = result.args[1]
                       /\ t.sub = "CUSTOMER_RETURN" /\ t.reference # NoRef
                       /\ t.quantity = 2
                       /\ prev.inv[t.item].current = 0 /\ prev.inv[t.item].returnable = 2
                       /\ inv[t.item].current = 2 /\ inv[t.item].returnable = 0

C19_CreateStoresPendingOnly ==
    Answered("create") =>
        /\ inv = prev.inv /\ orders = prev.orders /\ oitems = prev.oitems
        /\ prev.txns \subseteq txns
        /\ IF result.args[1] \notin ItemIds
           THEN result.err = "NotFound" /\ txns = prev.txns
           ELSE /\ result.err = "OK"
                /\ Cardinality(NewTxns) = 1
                /\ \A t \in NewTxns :
                      /\ t.item = result.args[1]
                      /\ t.status = "PENDING"
                      /\ t.confirmed_at = Null /\ t.confirmed_by = Null
                      /\ t.total_cost = t.quantity * t.unit_cost


\* C20: deleteOrder answers InvalidState unless the order is PENDING or CANCELLED,
\* and HasConfirmedTransactions when a transaction linked to the order is CONFIRMED;
\* in either case the order, its items, its transactions and the ledger are unchanged.
C20_DeleteOrderRejections ==
    (/\ Answered("deleteOrder")
     /\ \E o \in prev.orders : o.id = result.args[1]) =>
        LET o == CHOOSE x \in prev.orders : x.id = result.args[1]
            deletable == o.status \in {"PENDING", "CANCELLED"}
            confirmed == \E t \in prev.txns : t.order = o.id /\ t.status = "CONFIRMED"
        IN
        /\ ~deletable => result.err = "InvalidState" /\ Unchanged
        /\ (deletable /\ confirmed) =>
               result.err = "HasConfirmedTransactions" /\ Unchanged

\* deleteOrder was refused on a PENDING order that has lines and a confirmed
\* transaction linked to it
C20_Witness ==
    /\ Answered("deleteOrder") /\ result.err = "HasConfirmedTransactions"
    /\ \E o \in orders : o.id = result.args[1] /\ o.status = "PENDING"
    /\ \E oi \in oitems : oi.order = result.args[1]


\* C21: a successful deleteOrder removes the order, all of its order items and all
\* PENDING transactions linked to it, changes no ledger row and no other order (nor
\* another order's items or an unlinked transaction), and leaves no order item or
\* transaction that refers to the deleted order.
C21_DeleteOrderCascade ==
    (Answered("deleteOrder") /\ result.err = "OK") =>
        LET oid == result.args[1] IN
        /\ inv = prev.inv
        /\ orders = {o \in prev.orders : o.id # oid}
        /\ oitems = {oi \in prev.oitems : oi.order # oid}
        /\ txns = {t \in prev.txns : t.order # oid}
        /\ \A t \in prev.txns \ txns : t.status = "PENDING"
        /\ \E o \in prev.orders : o.id = oid

\* an order with a line and a PENDING transaction was deleted while another order
\* with a line and a transaction of its own stayed
C21_Witness ==
    /\ Answered("deleteOrder") /\ result.err = "OK"
    /\ \E oi \in prev.oitems : oi.order = result.args[1]
    /\ \E t \in prev.txns : t.order = result.args[1]
    /\ \E o \in orders : /\ \E oi \in oitems : oi.order = o.id
                         /\ \E t \in txns : t.order = o.id

\* the sum of total_price over a set of order items
RECURSIVE SumTotalPrice(_)
SumTotalPrice(S) ==
    IF S = {} THEN 0
    ELSE LET oi == CHOOSE x \in S : TRUE IN oi.total_price + SumTotalPrice(S \ {oi})

RECURSIVE SumRequested(_)
SumRequested(S) ==
    IF S = {} THEN 0
    ELSE LET oi == CHOOSE x \in S : TRUE IN oi.requested + SumRequested(S \ {oi})

\* the lines of order oid, before the request, that the pre-check of fulfillOrder
\* turns down: no ledger row, or available below the requested quantity
PrevShortLines(oid) ==
    {oi \in PrevLines(oid) :
        ~prev.inv[oi.item].exists \/ PrevAvailable(oi.item) < oi.requested}

\* what a successful fulfillOrder of order oid leaves behind
FulfillOrderDone(oid) ==
    /\ result.err = "OK"
    /\ Cardinality(NewTxns) = Cardinality(PrevLines(oid))
    /\ \A t \in NewTxns : /\ t.order = oid /\ t.type = "OUT" /\ t.status = "CONFIRMED"
                           /\ \E oi \in PrevLines(oid) :
                                 t.item = oi.item /\ t.quantity = oi.requested
    /\ \A oi \in PrevLines(oid) :
          \E t \in NewTxns : t.item = oi.item /\ t.quantity = oi.requested
    /\ prev.txns \subseteq txns
    /\ \A i \in ItemIds :
          NowCurrent(i) =
              PrevCurrent(i) - SumRequested({oi \in PrevLines(oid) : oi.item = i})
    /\ \A oi \in PrevLines(oid) :
          \E n \in oitems : /\ n.id = oi.id /\ n.fulfilled = oi.requested
                             /\ n.status = "FULFILLED"
    /\ \E o \in orders : o.id = oid /\ o.status = "FULFILLED"

SucceededQty ==
    (IF inflight[1].err = "OK" THEN inflight[1].qty ELSE 0) +
    (IF inflight[2].err = "OK" THEN inflight[2].qty ELSE 0)

CreatesTransactions ==
    {"create", "fulfillItem", "bulkFulfill", "fulfillOrder", "processReturn",
     "createOrderFulfillment"}

\* no two stored transactions share a transaction_number, and a transaction
\* stored later (with the greater id) has the greater number
StoredNumbersDistinctAndIncreasing ==
    \A t \in txns : \A u \in txns :
        /\ t.id # u.id => t.number # u.number
        /\ t.id < u.id => t.number[2] < u.number[2]

\* C26: every transaction is assigned a transaction number of its own: no two
\* transactions that exist together share a number, a later transaction has a
\* greater number than an earlier one, and a transaction created in the same clock
\* instant as another, or within the same bulkFulfill/fulfillOrder call, still gets
\* a number no other transaction has, so that no creating operation is turned down
\* by the store for a duplicate number.
C26_UniqueTransactionNumbers ==
    /\ StoredNumbersDistinctAndIncreasing
    /\ result.op \in CreatesTransactions => result.err # "StorageError"

\* the ledger returnable_quantity of every item that is not returnable is 0
NonReturnableLedgerStaysZero ==
    \A i \in ItemIds : ~IsReturnable(i) => inv[i].returnable = 0

\* C27: an OUT transaction on an item whose is_returnable flag is false never
\* carries a returnable_quantity above 0, whichever route created it, and the
\* ledger returnable_quantity of such an item stays 0.
C27_NonReturnableItemsCarryNoReturnable ==
    /\ \A t \in txns :
          (t.type = "OUT" /\ ~IsReturnable(t.item)) => ~(t.returnable > 0)
    /\ NonReturnableLedgerStaysZero

ConfirmCreatesZeroRowFirst ==
    (Answered("confirm") /\ result.err = "OK") =>
        LET t == PrevTxn(result.args[1]) IN
        ~prev.inv[t.item].exists =>
            /\ inv[t.item].exists
            /\ inv[t.item].reserved = 0
            /\ inv[t.item].available = inv[t.item].current
            /\ t.type = "IN" => inv[t.item].current = t.quantity
            /\ t.type = "OUT" => inv[t.item].current = 0 - t.quantity

C30_ReservedNeverChanges ==
    result # Idle =>
        \A i \in ItemIds :
            /\ prev.inv[i].exists =>
                  inv[i].exists /\ inv[i].reserved = prev.inv[i].reserved
            /\ (~prev.inv[i].exists /\ inv[i].exists) => inv[i].reserved = 0

\* a fulfilment took stock from a ledger row that carries a reservation
C30_Witness ==
    /\ result.op \in {"fulfillItem", "bulkFulfill", "fulfillOrder"}
    /\ result.err = "OK"
    /\ \E i \in ItemIds : /\ prev.inv[i].exists
                           /\ prev.inv[i].reserved > 0
                           /\ inv[i].current < prev.inv[i].current
                           /\ inv[i].reserved = prev.inv[i].reserved

C32_ConfirmedIsImmutable ==
    result # Idle =>
        \A p \in prev.txns : p.status = "CONFIRMED" => p \in txns

\* a second confirm, a second later, of a transaction that was already CONFIRMED
C32_Witness ==
    /\ Answered("confirm") /\ result.err = "AlreadyProcessed"
    /\ \E p \in prev.txns : /\ p.id = result.args[1]
                              /\ p.status = "CONFIRMED"
                              /\ p.confirmed_at < now
                              /\ p \in txns

\* C33: the ledger returnable_quantity of every item is at least 0 in every state
\* reached by create, confirm and processReturn, manually created CUSTOMER_RETURN
\* transactions and returns against an unconfirmed original included.
C33_ReturnableNeverNegative ==
    \A i \in ItemIds : inv[i].returnable >= 0

\* the sum of returnable_quantity over a set of transactions
RECURSIVE TotalReturnable(_)
TotalReturnable(T) ==
    IF T = {} THEN 0
    ELSE LET t == CHOOSE x \in T : TRUE IN t.returnable + TotalReturnable(T \ {t})

\* what the CONFIRMED transactions of item i say is out under a return obligation
ReturnableByTransactions(i) ==
    TotalReturnable({t \in txns : t.item = i /\ t.status = "CONFIRMED" /\ t.type = "OUT"})
    - TotalQuantity({t \in txns : /\ t.item = i /\ t.status = "CONFIRMED"
                                  /\ t.type = "IN" /\ t.sub = "CUSTOMER_RETURN"})

C35_PendingOrderHasNothingFulfilled ==
    \A o \in orders : o.status = "PENDING" =>
        \A oi \in oitems : oi.order = o.id =>
            /\ oi.fulfilled = 0
            /\ oi.requested - oi.fulfilled = oi.requested

\* a fulfillItem served part of a line and left the order PROCESSING
C35_Witness ==
    /\ Answered("fulfillItem") /\ result.err = "OK"
    /\ \E oi \in oitems : /\ oi.id = result.args[2]
                           /\ oi.fulfilled > 0
                           /\ oi.fulfilled < oi.requested
                           /\ \E o \in orders : o.id = oi.order /\ o.status = "PROCESSING"

\* C36: order_status only moves from PENDING to PROCESSING or to FULFILLED, and
\* both are terminal: after every request an order that was PROCESSING or
\* FULFILLED before it is still stored with the same status and each of its lines
\* has the fulfilled_quantity it had, so an order left PROCESSING never becomes
\* FULFILLED; no order ever has the status CANCELLED.
C36_OrderStatusTerminal ==
    /\ \A o \in orders : o.status \in {"PENDING", "PROCESSING", "FULFILLED"}
    /\ result # Idle =>
          \A p \in prev.orders :
              p.status \in {"PROCESSING", "FULFILLED"} =>
                  /\ \E o \in orders : o.id = p.id /\ o.status = p.status
                  /\ \A pl \in prev.oitems : pl.order = p.id =>
                        \E l \in oitems : l.id = pl.id /\ l.fulfilled = pl.fulfilled

\* a fulfilment was asked for an order left PROCESSING with a line still open,
\* and was refused
C36_Witness ==
    /\ result.op \in {"fulfillItem", "bulkFulfill", "fulfillOrder"}
    /\ result.err = "OrderNotPending"
    /\ \E p \in prev.orders :
          /\ p.id = result.args[1]
          /\ p.status = "PROCESSING"
          /\ \E pl \in prev.oitems : pl.order = p.id /\ pl.fulfilled < pl.requested
          /\ \E o \in orders : o.id = p.id /\ o.status = "PROCESSING"

\* the PENDING orders whose lines all ask for a positive quantity
OpenOrders ==
    {o \in orders : /\ o.status = "PENDING"
                     /\ \A oi \in oitems : oi.order = o.id => oi.requested > 0}

\* the clock readings under which a call on order o ends within the clock bound
TicksFor(o) ==
    LET n == Cardinality({oi \in oitems : oi.order = o.id}) IN
    {ticks \in TickChoices(n) : now + SumTicks(ticks, n) <= MaxClock}

\* the transactions an outcome adds, by id, item, quantity and returnable_quantity
AddedMovements(out) ==
    {<<t.id, t.item, t.type, t.quantity, t.returnable>> : t \in out.txns \ txns}

\* two outcomes agree: both leave the store as it was, or both succeed with the
\* same ledger rows, lines, order status and movements
SameOutcome(b, f) ==
    \/ /\ ~b.ok /\ ~f.ok
       /\ b.inv = inv /\ f.inv = inv
       /\ b.oitems = oitems /\ f.oitems = oitems
       /\ b.txns = txns /\ f.txns = txns
    \/ /\ b.ok /\ f.ok
       /\ b.inv = f.inv
       /\ b.oitems = f.oitems
       /\ b.status = f.status
       /\ AddedMovements(b) = AddedMovements(f)

\* C37: on every reachable PENDING order whose lines all have requested_quantity
\* above 0, bulkFulfill and fulfillOrder run from the same state with the same
\* clock readings either both fail and leave the state unchanged, or both succeed
\* with the same ledger rows, the same fulfilled quantities and statuses of the
\* lines, the same order_status and OUT transactions of the same item, quantity
\* and returnable_quantity.
C37_BulkFulfilEqualsFulfillOrder ==
    \A o \in OpenOrders : \A ticks \in TicksFor(o) :
        SameOutcome(BulkFulfilOutcome(o, ticks), FulfillOrderOutcome(o, ticks))

\* an order with two lines for which both calls succeed, each storing two
\* transactions
C37_Witness ==
    \E o \in OpenOrders : \E ticks \in TicksFor(o) :
        /\ Cardinality({oi \in oitems : oi.order = o.id}) = 2
        /\ BulkFulfilOutcome(o, ticks).ok
        /\ FulfillOrderOutcome(o, ticks).ok
        /\ Cardinality(AddedMovements(BulkFulfilOutcome(o, ticks))) = 2

WithoutRemarks(t) == [t EXCEPT !.remarks = NoRemarks]

AllWithoutRemarks(ts) == {WithoutRemarks(t) : t \in ts}

UnderCondition(t, c) == [t EXCEPT !.remarks = ReturnRemarks(c)]

ProcessedReturns == {t \in txns : \E c \in Conditions : t.remarks = ReturnRemarks(c)}

\* what confirm computes from a transaction and the ledger row of its item
ConfirmComputes(t) ==
    LET row == ConfirmRow(t.item) IN
    [refused |-> AlreadyProcessed(t), short |-> InsufficientStock(row, t),
     row |-> ApplyMovement(row, t)]

\* C39: the condition passed to processReturn has no effect on the ledger. From every
\* reachable store, two processReturn requests that differ only in the condition get
\* the same answer and leave the same transactions apart from the remarks, and
\* confirming a return computes the same ledger row whichever condition it was
\* processed with, both for the return just created and for every return stored.
C39_ConditionDoesNotReachLedger ==
    /\ \A original \in txns : \A rq \in ReturnQtys : \A c1, c2 \in Conditions :
         LET o1 == ProcessReturnOutcome(original.id, rq, c1)
             o2 == ProcessReturnOutcome(original.id, rq, c2)
         IN  /\ o1.err = o2.err
             /\ o1.nid = o2.nid
             /\ AllWithoutRemarks(o1.txns) = AllWithoutRemarks(o2.txns)
             /\ o1.err = "OK" =>
                    ConfirmComputes(ReturnTransaction(original, rq, c1)) =
                    ConfirmComputes(ReturnTransaction(original, rq, c2))
    /\ \A t \in ProcessedReturns : \A c \in Conditions :
         ConfirmComputes(UnderCondition(t, c)) = ConfirmComputes(t)

\* a return processed as DAMAGED has just been confirmed and has moved the ledger
C39_Witness ==
    /\ result # Idle /\ result.op = "confirm" /\ result.err = "OK"
    /\ \E t \in txns :
         /\ t.id = result.args[1]
         /\ t.remarks = ReturnRemarks("DAMAGED")
         /\ t.status = "CONFIRMED"
         /\ inv[t.item].current = prev.inv[t.item].current + t.quantity
         /\ t.quantity > 0

=============================================================================
